---- MODULE Spec2Model ----
(***************************************************************************)
(* Model of the query-parser plugins of whoosh (src/whoosh/qparser/        *)
(* plugins.py).  A syntax tree is a value: every node is a record whose    *)
(* "type" field names its class.  Every filter of a plugin is an operator  *)
(* from a group node to the group node it returns (or to an exception      *)
(* value when the Python code raises), and every specification below draws *)
(* an argument from a bounded set of trees and applies filters to it.      *)
(*                                                                         *)
(* The node classes themselves live in whoosh.qparser.syntax, which is not *)
(* part of src/; what the filters need of them (capability flags,          *)
(* set_fieldname, set_boost, replace_self, empty_copy) is modelled from    *)
(* spec.md sections 3 and 4.                                               *)
(***************************************************************************)
EXTENDS Integers, Sequences, FiniteSets, TLC

VARIABLES conf,     \* the configuration of the parser and of its plugins
          group,    \* the group node handed to the first filter call
          result,   \* the value returned by the last filter call
          ran       \* the names of the filters called so far, in call order

vars == <<conf, group, result, ran>>

----------------------------------------------------------------------------
(* Bounds of the model.                                                    *)

MaxLen == 5        \* longest flat sequence given to do_groups
MaxWsLen == 3      \* most children of the top group given to remove_whitespace
MaxFieldInner == 2 \* most children of an innermost group given to do_fieldnames
MaxFieldMid == 2   \* most children of the group that follows the field marker
MaxFieldsLen == 4  \* longest flat sequence given to do_fieldnames
MaxOpsLen == 5     \* longest flat sequence given to do_operators
MaxPmLen == 5      \* longest flat sequence given to do_plusminus
MaxMfLen == 2      \* most children of the top group given to do_multifield
MaxMfInner == 2    \* most children of a nested group given to do_multifield
MaxGtLtLen == 4    \* longest flat sequence given to do_gtlt
MaxPipeLen == 4    \* longest tagged sequence given to the filter chain
MaxWsInner == 2    \* most children of a nested group given to remove_whitespace
MaxBoostLen == 4   \* longest flat sequence given to clean_boost
MaxChainLen == 4   \* longest tagged sequence given to the field filter chain
MaxAssocLen == 5   \* longest flat sequence given to do_operators with custom taggers

----------------------------------------------------------------------------
(* Syntax nodes (whoosh.qparser.syntax, spec.md section 3).                *)

None == "None"                       \* Python's None, for field names and bounds
NoResult == [type |-> "NoResult"]    \* no filter has returned yet
IndexError == [type |-> "IndexError"] \* the filter call raised IndexError

\* TextNode.__init__: text, no field name, boost 1.0.  A text is a sequence
\* of fragments so that concatenation keeps the parts it was made of.
WordNode(text) ==
  [type |-> "Word", text |-> text, fieldname |-> None, boost |-> 1,
   startchar |-> None, endchar |-> None]

Whitespace == [type |-> "Whitespace"]

\* GroupNode.__init__(nodes, boost=1.0); gtype is the subclass
\* (And, Or, Not, AndNot, AndMaybe, Require).
GroupNode(gtype, nodes) ==
  [type |-> "Group", gtype |-> gtype, nodes |-> nodes, boost |-> 1,
   fieldname |-> None]

\* GroupNode.empty_copy: same class, boost and field name, no children.
empty_copy(g) == [g EXCEPT !.nodes = <<>>]

\* GroupNode.append
append(g, node) == [g EXCEPT !.nodes = Append(@, node)]

\* GroupNode.extend
extend(g, nodes) == [g EXCEPT !.nodes = @ \o nodes]

isGroupNode(node) == node.type = "Group"

\* SyntaxNode.is_ws: true of Whitespace only.
is_ws(node) == node.type = "Whitespace"

\* Capability flags of the node classes.
has_text(node) == node.type \in {"Word"}
has_fieldname(node) == node.type \in {"Word", "Range"}
has_boost(node) == node.type \in {"Word", "Range", "Group"}

\* parser.group: the class of the top-level group (QueryParser's default).
parser_group == GroupNode("And", <<>>)

\* FieldnameNode(fieldname, original): the marker of "name:".
FieldnameNode(fieldname, original) ==
  [type |-> "Fieldname", fieldname |-> fieldname, original |-> original]

\* SyntaxNode.set_fieldname(name, override): sets the field name of a node
\* that can carry one, unless it has one already and override is false; a
\* group passes the call on to all its children.
RECURSIVE set_fieldname(_, _, _)
set_fieldname(node, name, override) ==
  IF isGroupNode(node)
  THEN [node EXCEPT
          !.fieldname = IF @ = None \/ override THEN name ELSE @,
          !.nodes = [i \in 1..Len(node.nodes) |->
                       set_fieldname(node.nodes[i], name, override)]]
  ELSE IF has_fieldname(node) /\ (node.fieldname = None \/ override)
  THEN [node EXCEPT !.fieldname = name]
  ELSE node

\* SyntaxNode.set_boost(boost): the boost composes multiplicatively with the
\* boost the node has (1.0 after construction).
set_boost(node, boost) ==
  IF has_boost(node) THEN [node EXCEPT !.boost = @ * boost] ELSE node

\* RangeNode(start, end, startexcl, endexcl): no field name, boost 1.0.
RangeNode(start, end, startexcl, endexcl) ==
  [type |-> "Range", start |-> start, end |-> end,
   startexcl |-> startexcl, endexcl |-> endexcl,
   fieldname |-> None, boost |-> 1, startchar |-> None, endchar |-> None]

\* BoostPlugin.BoostNode(original, boost) (plugins.py 168-171).
BoostNode(original, boost) ==
  [type |-> "Boost", original |-> original, boost |-> boost]

isBoostNode(node) == node.type = "Boost"

\* GtLtPlugin.GtLtNode(rel) (plugins.py 641-643).
GtLtNode(rel) == [type |-> "GtLt", rel |-> rel]

isGtLtNode(node) == node.type = "GtLt"

\* PlusMinusPlugin.Plus and PlusMinusPlugin.Minus (plugins.py 576-577).
Plus == [type |-> "Plus"]
Minus == [type |-> "Minus"]

\* Operator(text, grouptype, leftassoc); optype is the subclass
\* (PrefixOperator or InfixOperator).
Operator(optype, grouptype, leftassoc) ==
  [type |-> "Operator", optype |-> optype, grouptype |-> grouptype,
   leftassoc |-> leftassoc]

isOperator(node) == node.type = "Operator"

\* GroupNode.merging: an operand is added to an existing group of the
\* n-ary classes; the binary classes (AndNot, AndMaybe, Require) and the Not
\* wrapper always get a new group (spec.md 4.9 and section 8, associativity).
merging(gtype) == gtype \in {"And", "Or"}

\* nodes[k] is a valid operand: it exists and is not an unresolved operator.
isOperand(nodes, k) == k \in 1..Len(nodes) /\ ~isOperator(nodes[k])

\* nodes with the positions from..to replaced by the one node.
Splice(nodes, from, to, node) ==
  SubSeq(nodes, 1, from - 1) \o <<node>> \o SubSeq(nodes, to + 1, Len(nodes))

\* Operator.replace_self(parser, group, position) (spec.md 4.9): returns the
\* new children and the index at which the scan goes on.  A prefix operator
\* takes the following operand, an infix operator the preceding and the
\* following one.  An operator without valid operands forms no group; it is
\* taken out of the sequence (spec.md section 3: an operator node is removed
\* by the precedence engine), which is what lets both scans of do_operators
\* go on at the returned index.
replace_self(t, nodes, p) ==
  LET gtype == t.grouptype
      unconsumed == [nodes |-> SubSeq(nodes, 1, p - 1) \o SubSeq(nodes, p + 1, Len(nodes)),
                     i |-> p]
  IN IF t.optype = "Prefix"
     THEN IF isOperand(nodes, p + 1)
          THEN [nodes |-> Splice(nodes, p, p + 1, GroupNode(gtype, <<nodes[p + 1]>>)),
                i |-> p]
          ELSE unconsumed
     ELSE IF isOperand(nodes, p - 1) /\ isOperand(nodes, p + 1)
          THEN LET left == nodes[p - 1]
                   right == nodes[p + 1]
               IN IF merging(gtype) /\ t.leftassoc
                     /\ isGroupNode(left) /\ left.gtype = gtype
                  THEN [nodes |-> Splice(nodes, p - 1, p + 1, append(left, right)),
                        i |-> p]
                  ELSE IF merging(gtype) /\ ~t.leftassoc
                          /\ isGroupNode(right) /\ right.gtype = gtype
                  THEN [nodes |-> Splice(nodes, p - 1, p + 1,
                                    [right EXCEPT !.nodes = <<left>> \o @]),
                        i |-> p - 1]
                  ELSE [nodes |-> Splice(nodes, p - 1, p + 1,
                                    GroupNode(gtype, <<left, right>>)),
                        i |-> p]
          ELSE unconsumed

----------------------------------------------------------------------------
(* Configuration: the schema of the parser and the constructor arguments   *)
(* of the plugins.                                                         *)

\* OperatorsPlugin.__init__ with default arguments: the taggers of self.ops
\* in the order they are appended.
OpTagger(grouptype, optype, leftassoc) ==
  [grouptype |-> grouptype, optype |-> optype, leftassoc |-> leftassoc]

DefaultOps ==
  << OpTagger("Not", "Prefix", TRUE),
     OpTagger("And", "Infix", TRUE),
     OpTagger("Or", "Infix", TRUE),
     OpTagger("AndNot", "Infix", TRUE),
     OpTagger("AndMaybe", "Infix", TRUE),
     OpTagger("Require", "Infix", TRUE) >>

\* schema = {} stands for a parser without schema (parser.schema is falsy).
DefaultConf ==
  [schema |-> {},
   removeunknown |-> TRUE,
   ops |-> DefaultOps,
   fieldnames |-> <<>>,
   boosts |-> <<>>,
   mfgroup |-> "Or"]

----------------------------------------------------------------------------
(* Helpers over trees.                                                     *)

RECURSIVE Leaves(_)
\* The non-group nodes of a tree, depth first, left to right.
Leaves(node) ==
  IF isGroupNode(node)
  THEN LET RECURSIVE cat(_)
           cat(i) == IF i > Len(node.nodes) THEN <<>>
                     ELSE Leaves(node.nodes[i]) \o cat(i + 1)
       IN cat(1)
  ELSE <<node>>

\* Some node of the tree, at any depth, has one of the given types.
HasType(node, types) == \E i \in 1..Len(Leaves(node)) : Leaves(node)[i].type \in types

RECURSIVE Depth(_)
Depth(node) ==
  IF ~isGroupNode(node) THEN 0
  ELSE LET RECURSIVE mx(_)
           mx(i) == IF i > Len(node.nodes) THEN 0
                    ELSE LET d == Depth(node.nodes[i]) r == mx(i + 1)
                         IN IF d > r THEN d ELSE r
       IN 1 + mx(1)

\* All sequences over S of length at most n.
SeqsUpTo(S, n) == UNION {[1..k -> S] : k \in 0..n}

----------------------------------------------------------------------------
(* GroupPlugin (plugins.py 226-286).                                       *)

OpenBracket == [type |-> "OpenBracket"]
CloseBracket == [type |-> "CloseBracket"]

\* The for loop of do_groups over the flat sequence; stack is the group
\* hierarchy stack.  stack[-1] raises IndexError on an empty stack.
RECURSIVE do_groups_loop(_, _, _)
do_groups_loop(nodes, i, stack) ==
  IF i > Len(nodes) THEN stack
  ELSE LET node == nodes[i]
           n == Len(stack)
       IN IF node.type = "OpenBracket"
          THEN do_groups_loop(nodes, i + 1, Append(stack, parser_group))
          ELSE IF node.type = "CloseBracket"
          THEN IF n > 1
               THEN LET last == stack[n]
                        rest == SubSeq(stack, 1, n - 1)
                    IN do_groups_loop(nodes, i + 1,
                         [rest EXCEPT ![n - 1] = append(@, last)])
               ELSE do_groups_loop(nodes, i + 1, stack)
          ELSE IF n = 0 THEN <<IndexError>>
               ELSE do_groups_loop(nodes, i + 1,
                      [stack EXCEPT ![n] = append(@, node)])

\* top.extend(ls) for every level left on the stack beyond the base.
extend_levels_dropped(top, stack, k) == top

RECURSIVE extend_levels(_, _, _)
extend_levels(top, stack, k) ==
  IF k > Len(stack) THEN top
  ELSE extend_levels(extend(top, stack[k].nodes), stack, k + 1)

do_groups(g) ==
  LET stack == do_groups_loop(g.nodes, 1, <<parser_group>>)
  IN IF stack[Len(stack)] = IndexError THEN IndexError
     ELSE LET top == extend_levels(stack[1], stack, 2)
          IN IF Len(top.nodes) = 1 /\ isGroupNode(top.nodes[1])
             THEN [top.nodes[1] EXCEPT !.boost = top.boost]
             ELSE top

----------------------------------------------------------------------------
(* WhitespacePlugin (plugins.py 84-107).                                   *)

RECURSIVE remove_whitespace_flat(_)
remove_whitespace_flat(g) ==
  LET RECURSIVE loop(_, _)
      loop(i, newgroup) ==
        IF i > Len(g.nodes) THEN newgroup
        ELSE LET node == g.nodes[i]
             IN IF isGroupNode(node) \/ ~is_ws(node)
                THEN loop(i + 1, append(newgroup, node))
                ELSE loop(i + 1, newgroup)
  IN loop(1, empty_copy(g))

RECURSIVE remove_whitespace(_)
remove_whitespace(g) ==
  LET RECURSIVE loop(_, _)
      loop(i, newgroup) ==
        IF i > Len(g.nodes) THEN newgroup
        ELSE LET node == g.nodes[i]
             IN IF isGroupNode(node)
                THEN loop(i + 1, append(newgroup, remove_whitespace(node)))
                ELSE IF ~is_ws(node)
                THEN loop(i + 1, append(newgroup, node))
                ELSE loop(i + 1, newgroup)
  IN loop(1, empty_copy(g))

----------------------------------------------------------------------------
(* FieldsPlugin (plugins.py 289-360).                                      *)

Reverse(s) == [i \in 1..Len(s) |-> s[Len(s) + 1 - i]]

isFieldname(node) == node.type = "Fieldname"

\* A Python string is falsy when it is None or empty; <<>> stands for both.
NoText == <<>>

\* Lines 320-340: field markers whose name is not in the schema become text.
\* text is the pending text of the last unknown marker seen.
RECURSIVE remove_unknown_loop(_, _, _, _, _)
remove_unknown_loop(schema, nodes, i, newgroup, text) ==
  IF i > Len(nodes)
  THEN IF text # NoText THEN append(newgroup, WordNode(text)) ELSE newgroup
  ELSE LET node == nodes[i]
       IN IF isFieldname(node) /\ node.fieldname \notin schema
          THEN remove_unknown_loop(schema, nodes, i + 1, newgroup, node.original)
          ELSE IF text # NoText
          THEN IF has_text(node)
               THEN remove_unknown_loop(schema, nodes, i + 1,
                      append(newgroup, [node EXCEPT !.text = text \o @]), NoText)
               ELSE remove_unknown_loop(schema, nodes, i + 1,
                      append(append(newgroup, WordNode(text)), node), NoText)
          ELSE remove_unknown_loop(schema, nodes, i + 1,
                      append(newgroup, node), text)

remove_unknown(c, g) ==
  IF c.removeunknown /\ c.schema # {}
  THEN remove_unknown_loop(c.schema, g.nodes, 1, empty_copy(g), NoText)
  ELSE g

\* Line 355: the field name of a marker never replaces one already set.
fieldname_override_always == TRUE

fieldname_override == FALSE

\* Lines 342-360: the backward scan; i is the (1-based) index of the node
\* looked at, newgroup collects the nodes in reverse order.
RECURSIVE do_fieldnames(_, _)
do_fieldnames(c, g0) ==
  LET g == remove_unknown(c, g0)
      RECURSIVE loop(_, _)
      loop(i, newgroup) ==
        IF i < 1 THEN newgroup
        ELSE LET n0 == g.nodes[i]
                 node == IF isFieldname(n0) THEN WordNode(n0.original)
                         ELSE IF isGroupNode(n0) THEN do_fieldnames(c, n0)
                         ELSE n0
             IN IF i > 1 /\ ~is_ws(node) /\ isFieldname(g.nodes[i - 1])
                THEN loop(i - 2, append(newgroup,
                            set_fieldname(node, g.nodes[i - 1].fieldname,
                                          fieldname_override)))
                ELSE loop(i - 1, append(newgroup, node))
      reversed == loop(Len(g.nodes), empty_copy(g))
  IN [reversed EXCEPT !.nodes = Reverse(@)]

----------------------------------------------------------------------------
(* OperatorsPlugin (plugins.py 462-561).                                   *)

\* Line 540: a tagger's operators are scanned left to right when it is
\* left-associative, right to left otherwise.
scans_right_always(tagger) == FALSE

scans_left(tagger) == tagger.leftassoc

\* Line 544: the test of the left-to-right scan.
matches_left_any_group(t, tagger) ==
  isOperator(t) /\ t.optype = tagger.optype

matches_left(t, tagger) ==
  isOperator(t) /\ t.optype = tagger.optype /\ t.grouptype = tagger.grouptype

\* Line 552: the test of the right-to-left scan.
matches_right(t, tagger) ==
  isOperator(t) /\ t.optype = tagger.optype

\* Lines 541-547.
RECURSIVE scan_left(_, _, _)
scan_left(tagger, nodes, i) ==
  IF i > Len(nodes) THEN nodes
  ELSE IF matches_left(nodes[i], tagger)
       THEN LET r == replace_self(nodes[i], nodes, i)
            IN scan_left(tagger, r.nodes, r.i)
       ELSE scan_left(tagger, nodes, i + 1)

\* Lines 549-554.
RECURSIVE scan_right(_, _, _)
scan_right(tagger, nodes, i) ==
  IF i < 1 THEN nodes
  ELSE IF matches_right(nodes[i], tagger)
       THEN LET r == replace_self(nodes[i], nodes, i)
            IN scan_right(tagger, r.nodes, r.i - 1)
       ELSE scan_right(tagger, nodes, i - 1)

\* Lines 531-554: one scan for every tagger of self.ops, in list order.
RECURSIVE scan_ops(_, _, _)
scan_ops(ops, k, nodes) ==
  IF k > Len(ops) THEN nodes
  ELSE scan_ops(ops, k + 1,
         IF scans_left(ops[k]) THEN scan_left(ops[k], nodes, 1)
         ELSE scan_right(ops[k], nodes, Len(nodes)))

RECURSIVE do_operators(_, _)
do_operators(ops, g) ==
  LET nodes == scan_ops(ops, 1, g.nodes)
  IN [g EXCEPT !.nodes =
        [i \in 1..Len(nodes) |->
           IF isGroupNode(nodes[i]) THEN do_operators(ops, nodes[i])
           ELSE nodes[i]]]

----------------------------------------------------------------------------
(* PlusMinusPlugin (plugins.py 566-619).                                   *)

\* Line 612: after a node was put into a group the next one goes to optional.
next_kept(next) == next

next_reset(next) == "optional"

\* Lines 601-612: b holds the three groups, next names the group that gets
\* the next node.
RECURSIVE do_plusminus_loop(_, _, _, _)
do_plusminus_loop(nodes, i, b, next) ==
  IF i > Len(nodes) THEN b
  ELSE LET node == nodes[i]
       IN IF node.type = "Plus"
          THEN do_plusminus_loop(nodes, i + 1, b, "required")
          ELSE IF node.type = "Minus"
          THEN do_plusminus_loop(nodes, i + 1, b, "banned")
          ELSE do_plusminus_loop(nodes, i + 1,
                 [b EXCEPT ![next] = append(@, node)], next_reset(next))

\* A group is true in a condition when it has children.
nonempty(g) == Len(g.nodes) > 0

do_plusminus(g) ==
  LET b == do_plusminus_loop(g.nodes, 1,
             [required |-> GroupNode("And", <<>>),
              optional |-> GroupNode("Or", <<>>),
              banned |-> GroupNode("Or", <<>>)], "optional")
      g1 == IF nonempty(b.required)
            THEN GroupNode("AndMaybe", <<b.required, b.optional>>)
            ELSE b.optional
  IN IF nonempty(b.banned)
     THEN GroupNode("AndNot", <<g1, b.banned>>)
     ELSE g1

----------------------------------------------------------------------------
(* MultifieldPlugin (plugins.py 699-744).                                  *)

\* Line 741: self.boosts.get(fname, 1.0).
boosts_get(c, fname) ==
  IF fname \in DOMAIN c.boosts THEN c.boosts[fname] ELSE 1

\* Lines 737-743: the group of fielded copies of an unfielded node.
multifield_group(c, node) ==
  GroupNode(c.mfgroup,
    [k \in 1..Len(c.fieldnames) |->
       set_boost(set_fieldname(node, c.fieldnames[k], FALSE),
                 boosts_get(c, c.fieldnames[k]))])

do_multifield_flat(c, g) ==
  [g EXCEPT !.nodes =
     [i \in 1..Len(g.nodes) |->
        LET node == g.nodes[i]
        IN IF isGroupNode(node) THEN node
           ELSE IF has_fieldname(node) /\ node.fieldname = None
           THEN multifield_group(c, node)
           ELSE node]]

RECURSIVE do_multifield(_, _)
do_multifield(c, g) ==
  [g EXCEPT !.nodes =
     [i \in 1..Len(g.nodes) |->
        LET node == g.nodes[i]
        IN IF isGroupNode(node) THEN do_multifield(c, node)
           ELSE IF has_fieldname(node) /\ node.fieldname = None
           THEN multifield_group(c, node)
           ELSE node]]

----------------------------------------------------------------------------
(* GtLtPlugin (plugins.py 622-696).                                        *)

make_range(node, rel) ==
  LET text == node.text
      n == IF rel = "<" THEN RangeNode(None, text, FALSE, TRUE)
           ELSE IF rel = ">" THEN RangeNode(text, None, TRUE, FALSE)
           ELSE IF rel = "<=" \/ rel = "=<" THEN RangeNode(None, text, FALSE, FALSE)
           ELSE RangeNode(text, None, FALSE, FALSE)
  IN [n EXCEPT !.startchar = node.startchar, !.endchar = node.endchar]

\* Lines 663-680.  newgroup[-1] raises IndexError when newgroup is empty.
RECURSIVE do_gtlt_loop(_, _, _)
do_gtlt_loop(nodes, i, newgroup) ==
  IF i > Len(nodes) THEN newgroup
  ELSE LET node == nodes[i]
       IN IF isGtLtNode(node)
          THEN IF i < Len(nodes)
               THEN IF newgroup.nodes = <<>> THEN IndexError
                    ELSE LET prevnode == newgroup.nodes[Len(newgroup.nodes)]
                             nextnode == nodes[i + 1]
                         IN IF isFieldname(prevnode) /\ has_text(nextnode)
                            THEN do_gtlt_loop(nodes, i + 2,
                                   append(newgroup, make_range(nextnode, node.rel)))
                            ELSE do_gtlt_loop(nodes, i + 1, newgroup)
               ELSE do_gtlt_loop(nodes, i + 1, newgroup)
          ELSE do_gtlt_loop(nodes, i + 1, append(newgroup, node))

do_gtlt(g) == do_gtlt_loop(g.nodes, 1, empty_copy(g))

----------------------------------------------------------------------------
(* BoostPlugin (plugins.py 159-223).                                       *)

\* Lines 198-201: the group is changed in place, so the node before a boost
\* marker is looked up among the nodes already rewritten.
RECURSIVE clean_boost_loop(_, _)
clean_boost_loop(nodes, i) ==
  IF i > Len(nodes) THEN nodes
  ELSE IF isBoostNode(nodes[i]) /\ (i = 1 \/ ~has_boost(nodes[i - 1]))
       THEN clean_boost_loop([nodes EXCEPT ![i] = WordNode(nodes[i].original)], i + 1)
       ELSE clean_boost_loop(nodes, i + 1)

clean_boost(g) == [g EXCEPT !.nodes = clean_boost_loop(g.nodes, 1)]

RECURSIVE do_boost(_)
do_boost(g) ==
  LET RECURSIVE loop(_, _)
      loop(i, newgroup) ==
        IF i > Len(g.nodes) THEN newgroup
        ELSE LET node == g.nodes[i]
                 n == Len(newgroup.nodes)
             IN IF isGroupNode(node)
                THEN loop(i + 1, append(newgroup, do_boost(node)))
                ELSE IF isBoostNode(node)
                THEN IF n > 0 /\ has_boost(newgroup.nodes[n])
                     THEN loop(i + 1, [newgroup EXCEPT !.nodes[n] = set_boost(@, node.boost)])
                     ELSE loop(i + 1, append(newgroup, WordNode(node.original)))
                ELSE loop(i + 1, append(newgroup, node))
  IN loop(1, empty_copy(g))

----------------------------------------------------------------------------
(* Calling one filter: the call is recorded and its value returned.        *)

Call(name, value) ==
  /\ ran' = Append(ran, name)
  /\ result' = value
  /\ UNCHANGED <<conf, group>>

Start(confs, trees) ==
  /\ conf \in confs
  /\ group \in trees
  /\ result = NoResult
  /\ ran = <<>>

raised == result.type = "IndexError"

\* The filters of the plugins with the priorities their filters() methods
\* return; the parser runs them in ascending priority order.
clean_boost_priority == 0
do_boost_priority == 700
do_groups_priority == 0
do_fieldnames_priority == 100
do_operators_priority == 600
do_plusminus_priority == 510
do_gtlt_priority == 99
remove_whitespace_priority == 500

Filters ==
  { [name |-> "clean_boost", priority |-> clean_boost_priority],
    [name |-> "do_groups", priority |-> do_groups_priority],
    [name |-> "do_gtlt", priority |-> do_gtlt_priority],
    [name |-> "do_fieldnames", priority |-> do_fieldnames_priority],
    [name |-> "remove_whitespace", priority |-> remove_whitespace_priority],
    [name |-> "do_plusminus", priority |-> do_plusminus_priority],
    [name |-> "do_operators", priority |-> do_operators_priority],
    [name |-> "do_boost", priority |-> do_boost_priority] }

Ran(name) == \E i \in 1..Len(ran) : ran[i] = name

\* The tree the next filter of the chain is given.
Tree == IF ran = <<>> THEN group ELSE result

\* The filter chain (spec.md 4.2): a filter runs once, after all filters of
\* lower priority; filters of equal priority run in registration order,
\* which is either order here.  A filter that raises ends the parse.
RunFilter(name, priority, value) ==
  /\ ~Ran(name)
  /\ ~raised
  /\ \A f \in Filters : f.priority < priority => Ran(f.name)
  /\ Call(name, value)

----------------------------------------------------------------------------
(* Specification of GroupPlugin.do_groups on flat sequences.               *)

WordA == WordNode(<<"a">>)
WordB == WordNode(<<"b">>)
WordC == WordNode(<<"c">>)

GroupsAlphabet == {OpenBracket, CloseBracket, WordA, WordB, WordC}

InitGroups == Start({DefaultConf}, {GroupNode("And", s) : s \in SeqsUpTo(GroupsAlphabet, MaxLen)})

DoGroups ==
  /\ ran = <<>>
  /\ Call("do_groups", do_groups(group))

NextGroups == DoGroups

SpecGroups == InitGroups /\ [][NextGroups]_vars

Brackets == {"OpenBracket", "CloseBracket"}

NotBracket(node) == node.type \notin Brackets

Count(nodes, type) == Len(SelectSeq(nodes, LAMBDA n : n.type = type))

\* C1: do_groups returns a group and never raises, whatever the number and
\* order of bracket markers; the tree it returns holds no bracket marker at
\* any depth, and its leaves, depth first, are exactly the non-bracket nodes
\* of the input in input order.
C1_GroupsTotal ==
  ran = <<"do_groups">> =>
    /\ ~raised
    /\ isGroupNode(result)
    /\ ~HasType(result, Brackets)
    /\ Leaves(result) = SelectSeq(group.nodes, NotBracket)

\* An input with a close bracket before any open one and with opens that are
\* never closed has been grouped.
C1_Witness ==
  /\ ran = <<"do_groups">>
  /\ Len(group.nodes) = 5
  /\ group.nodes[1] = CloseBracket
  /\ Count(group.nodes, "OpenBracket") = 2
  /\ Count(group.nodes, "CloseBracket") = 1
  /\ Len(Leaves(result)) = 2

----------------------------------------------------------------------------
(* Specification of WhitespacePlugin.remove_whitespace on trees.           *)

\* Groups of the given class whose children are at most n nodes of S.
GroupsOver(gtypes, S, n) ==
  {GroupNode(t, s) : t \in gtypes, s \in SeqsUpTo(S, n)}

WsLeaves == {Whitespace, WordA}

WsInner == GroupsOver({"Or"}, WsLeaves, MaxWsInner)

\* One tree three groups deep, beside all the trees two groups deep.
WsDeep ==
  GroupNode("And", << Whitespace,
     GroupNode("Or", << WordA, Whitespace,
        [GroupNode("And", << Whitespace, WordB, Whitespace >>) EXCEPT !.boost = 2],
        [WordB EXCEPT !.fieldname = "title"] >>),
     Whitespace >>)

WsTrees == GroupsOver({"And"}, WsLeaves \cup WsInner, MaxWsLen) \cup {WsDeep}

InitWhitespace == Start({DefaultConf}, WsTrees)

\* The filter is applied to the tree, and then once more to its own output.
RemoveWhitespace ==
  /\ ran = <<>>
  /\ Call("remove_whitespace", remove_whitespace(group))

RemoveWhitespaceAgain ==
  /\ ran = <<"remove_whitespace">>
  /\ Call("remove_whitespace", remove_whitespace(result))

NextWhitespace == RemoveWhitespace \/ RemoveWhitespaceAgain

SpecWhitespace == InitWhitespace /\ [][NextWhitespace]_vars

RECURSIVE Tokens(_)
\* A tree written as a token sequence: every group becomes its header (the
\* group without children), the tokens of its children, and an end token.
Tokens(node) ==
  IF isGroupNode(node)
  THEN LET RECURSIVE cat(_)
           cat(i) == IF i > Len(node.nodes) THEN <<>>
                     ELSE Tokens(node.nodes[i]) \o cat(i + 1)
       IN <<empty_copy(node)>> \o cat(1) \o <<[type |-> "GroupEnd"]>>
  ELSE <<node>>

NotWs(node) == node.type # "Whitespace"

\* C7: remove_whitespace returns the input tree with the whitespace markers
\* deleted at every depth and nothing else changed (groups, nesting and
\* sibling order are kept); applied to a tree without whitespace markers, in
\* particular to its own output, it returns an equal tree.
C7_WhitespaceRemoved ==
  /\ ran # <<>> =>
       /\ ~HasType(result, {"Whitespace"})
       /\ Tokens(result) = SelectSeq(Tokens(group), NotWs)
  /\ (ran = <<"remove_whitespace">> /\ ~HasType(group, {"Whitespace"})) =>
       result = group
  /\ Len(ran) = 2 => result = remove_whitespace(group)

\* A tree with whitespace markers inside a nested group has been filtered
\* twice.
C7_Witness ==
  /\ Len(ran) = 2
  /\ \E i \in 1..Len(group.nodes) :
        /\ isGroupNode(group.nodes[i])
        /\ HasType(group.nodes[i], {"Whitespace"})
        /\ HasType(group.nodes[i], {"Word"})
  /\ result # group

----------------------------------------------------------------------------
(* Specification of FieldsPlugin.do_fieldnames on a field marker followed  *)
(* by a group, as do_groups leaves it.                                     *)

FnTitle == FieldnameNode("title", <<"title:">>)
FnBody == FieldnameNode("body", <<"body:">>)

FieldConfs ==
  {[DefaultConf EXCEPT !.schema = sc] : sc \in {{}, {"title"}, {"title", "body"}}}
  \cup {[DefaultConf EXCEPT !.schema = {"title"}, !.removeunknown = FALSE]}

FgLeaves == {FnBody, WordA}

FgInner == GroupsOver({"And"}, FgLeaves, MaxFieldInner)

FgMid == GroupsOver({"And"}, FgLeaves \cup FgInner, MaxFieldMid)

\* title:(a body:b), the tagged and grouped form of "title:(hello body:world)".
FgExample ==
  GroupNode("And", << FnTitle, GroupNode("And", << WordA, FnBody, WordB >>) >>)

\* title:(a body: b (+c)): whitespace and a Plus marker inside the group.
FgExampleWs ==
  GroupNode("And", << FnTitle,
     GroupNode("And", << WordA, FnBody, Whitespace, WordB,
                         GroupNode("And", << Plus, WordC >>) >>) >>)

FgTrees ==
  {GroupNode("And", pre \o << m, g >>) :
     pre \in {<<>>, <<WordB>>, <<Whitespace>>, <<FnBody>>}, m \in {FnTitle, FnBody}, g \in FgMid}
  \cup {FgExample, FgExampleWs}

InitFieldGroup == Start(FieldConfs, FgTrees)

DoFieldnames ==
  /\ ran = <<>>
  /\ Call("do_fieldnames", do_fieldnames(conf, group))

NextFieldGroup == DoFieldnames

SpecFieldGroup == InitFieldGroup /\ [][NextFieldGroup]_vars

\* The marker is not turned into text by the unknown-field pass.
MarkerKept(c, m) == ~(c.removeunknown /\ c.schema # {} /\ m.fieldname \notin c.schema)

\* A leaf as the marker in front of its group leaves it.
Filled(leaf, name) ==
  IF has_fieldname(leaf) /\ leaf.fieldname = None
  THEN [leaf EXCEPT !.fieldname = name]
  ELSE leaf

\* C2: a field marker immediately followed by a group is consumed and gives
\* its name to every field-capable leaf of the group, at any depth, that has
\* no field name after the markers inside the group were applied; a leaf
\* named by a marker of its own inside the group keeps that name.
C2_FieldPropagation ==
  LET k == Len(group.nodes)
      m == group.nodes[k - 1]
      own == Leaves(do_fieldnames(conf, group.nodes[k]))
      r == result.nodes[Len(result.nodes)]
  IN (ran = <<"do_fieldnames">> /\ MarkerKept(conf, m)) =>
       /\ Len(result.nodes) = k - 1
       /\ isGroupNode(r)
       /\ Depth(r) = Depth(group.nodes[k])
       /\ Len(Leaves(r)) = Len(own)
       /\ \A i \in 1..Len(own) : Leaves(r)[i] = Filled(own[i], m.fieldname)
       /\ \A i \in 1..Len(own) :
            has_fieldname(Leaves(r)[i]) => Leaves(r)[i].fieldname # None
       /\ (group = FgExample /\ MarkerKept(conf, FnBody)) =>
            Tokens(result) =
              << empty_copy(group),
                 [GroupNode("And", <<>>) EXCEPT !.fieldname = "title"],
                 [WordA EXCEPT !.fieldname = "title"],
                 [WordB EXCEPT !.fieldname = "body"],
                 [type |-> "GroupEnd"], [type |-> "GroupEnd"] >>

\* title:(a (body:a)) has been filtered: the leaf two groups down that has a
\* marker of its own keeps body, the other leaf gets title.
C2_Witness ==
  /\ ran = <<"do_fieldnames">>
  /\ MarkerKept(conf, FnTitle)
  /\ group.nodes = << FnTitle,
        GroupNode("And", << WordA, GroupNode("And", << FnBody, WordA >>) >>) >>
  /\ Leaves(result) = << [WordA EXCEPT !.fieldname = "title"],
                         [WordA EXCEPT !.fieldname = "body"] >>

----------------------------------------------------------------------------
(* Specification of FieldsPlugin.do_fieldnames on flat sequences.          *)

FieldsAlphabet == {FnTitle, FnBody, WordA, WordB, Whitespace, Plus}

InitFields ==
  Start(FieldConfs,
        {GroupNode("And", s) : s \in SeqsUpTo(FieldsAlphabet, MaxFieldsLen)})

NextFields == DoFieldnames

SpecFields == InitFields /\ [][NextFields]_vars

\* The filter turns unknown field markers into text.
RejectsUnknown(c) == c.removeunknown /\ c.schema # {}

\* How many text fragments of the leaves of a tree equal the given one.
FragCount(node, frag) ==
  LET RECURSIVE sum(_)
      sum(i) ==
        IF i > Len(Leaves(node)) THEN 0
        ELSE (IF has_text(Leaves(node)[i])
              THEN Len(SelectSeq(Leaves(node)[i].text, LAMBDA f : f = frag))
              ELSE 0) + sum(i + 1)
  IN sum(1)

MarkerCount(nodes, m) == Len(SelectSeq(nodes, LAMBDA n : n = m))

\* C10: with unknown field names rejected and a schema present, the original
\* text of every field marker whose name is not in the schema is in the
\* output, as a word of its own or as the prefix of the following text node;
\* none is lost, also when unknown markers follow one another.
C10_UnknownTextKept ==
  (ran = <<"do_fieldnames">> /\ RejectsUnknown(conf)) =>
    \A m \in {FnTitle, FnBody} :
      m.fieldname \notin conf.schema =>
        FragCount(result, m.original[1]) = MarkerCount(group.nodes, m)

----------------------------------------------------------------------------
(* Specification of OperatorsPlugin.do_operators on flat sequences.        *)

\* The operator nodes the default taggers create.
OpNode(tagger) == Operator(tagger.optype, tagger.grouptype, tagger.leftassoc)

DefaultOpNodes == {OpNode(DefaultOps[k]) : k \in 1..Len(DefaultOps)}

OpNot == Operator("Prefix", "Not", TRUE)
OpAnd == Operator("Infix", "And", TRUE)
OpOr == Operator("Infix", "Or", TRUE)
OpAndNot == Operator("Infix", "AndNot", TRUE)

OpsAlphabet == {WordA, WordB, WordC} \cup DefaultOpNodes

InitOperators ==
  Start({DefaultConf},
        {GroupNode("And", s) : s \in SeqsUpTo(OpsAlphabet, MaxOpsLen)})

DoOperators ==
  /\ ran = <<>>
  /\ Call("do_operators", do_operators(conf.ops, group))

NextOperators == DoOperators

SpecOperators == InitOperators /\ [][NextOperators]_vars

\* The place of an operator node's tagger in self.ops.
Rank(ops, t) ==
  CHOOSE k \in 1..Len(ops) :
    ops[k].optype = t.optype /\ ops[k].grouptype = t.grouptype

isInfix(node) == isOperator(node) /\ node.optype = "Infix"
isPrefix(node) == isOperator(node) /\ node.optype = "Prefix"

\* C3: with the default registration order every operator registered
\* earlier is resolved first and so ends up nested inside the group of one
\* registered later: x o1 y o2 z becomes o2(o1(x, y), z) when o1 is
\* registered before o2 and o1(x, o2(y, z)) when after; NOT x o y becomes
\* o(Not(x), y) and x o NOT y becomes o(x, Not(y)).  In particular
\* a OR b AND c is Or(a, And(b, c)) and a AND b OR c is Or(And(a, b), c).
C3_Precedence ==
  LET n == group.nodes
  IN ran = <<"do_operators">> =>
     /\ (/\ Len(n) = 5
         /\ ~isOperator(n[1]) /\ ~isOperator(n[3]) /\ ~isOperator(n[5])
         /\ isInfix(n[2]) /\ isInfix(n[4])
         /\ Rank(conf.ops, n[2]) # Rank(conf.ops, n[4])) =>
          result.nodes =
            IF Rank(conf.ops, n[2]) < Rank(conf.ops, n[4])
            THEN << GroupNode(n[4].grouptype,
                      << GroupNode(n[2].grouptype, <<n[1], n[3]>>), n[5] >>) >>
            ELSE << GroupNode(n[2].grouptype,
                      << n[1], GroupNode(n[4].grouptype, <<n[3], n[5]>>) >>) >>
     /\ (/\ Len(n) = 4
         /\ isPrefix(n[1]) /\ ~isOperator(n[2]) /\ isInfix(n[3]) /\ ~isOperator(n[4])
         /\ Rank(conf.ops, n[1]) < Rank(conf.ops, n[3])) =>
          result.nodes =
            << GroupNode(n[3].grouptype,
                 << GroupNode(n[1].grouptype, <<n[2]>>), n[4] >>) >>
     /\ (/\ Len(n) = 4
         /\ ~isOperator(n[1]) /\ isInfix(n[2]) /\ isPrefix(n[3]) /\ ~isOperator(n[4])
         /\ Rank(conf.ops, n[3]) < Rank(conf.ops, n[2])) =>
          result.nodes =
            << GroupNode(n[2].grouptype,
                 << n[1], GroupNode(n[3].grouptype, <<n[4]>>) >>) >>
     /\ n = <<WordA, OpOr, WordB, OpAnd, WordC>> =>
          result.nodes = << GroupNode("Or", <<WordA, GroupNode("And", <<WordB, WordC>>)>>) >>
     /\ n = <<WordA, OpAnd, WordB, OpOr, WordC>> =>
          result.nodes = << GroupNode("Or", <<GroupNode("And", <<WordA, WordB>>), WordC>>) >>

\* a OR b AND c has been resolved.
C3_Witness ==
  /\ ran = <<"do_operators">>
  /\ group.nodes = <<WordA, OpOr, WordB, OpAnd, WordC>>
  /\ Len(result.nodes) = 1
  /\ result.nodes[1].gtype = "Or"

----------------------------------------------------------------------------
(* Specification of PlusMinusPlugin.do_plusminus on flat sequences.        *)

PmAlphabet == {Plus, Minus, WordA, WordB, WordC, GroupNode("And", <<WordA>>)}

InitPlusMinus ==
  Start({DefaultConf},
        {GroupNode("And", s) : s \in SeqsUpTo(PmAlphabet, MaxPmLen)})

DoPlusMinus ==
  /\ ran = <<>>
  /\ Call("do_plusminus", do_plusminus(group))

NextPlusMinus == DoPlusMinus

SpecPlusMinus == InitPlusMinus /\ [][NextPlusMinus]_vars

isPlusMinus(node) == node.type \in {"Plus", "Minus"}

\* The bucket of the node at position i: that of the marker right before it,
\* optional when the node before it is no marker (the marker before that one
\* is used up) or when there is none.
Bucket(nodes, i) ==
  IF i > 1 /\ nodes[i - 1].type = "Plus" THEN "required"
  ELSE IF i > 1 /\ nodes[i - 1].type = "Minus" THEN "banned"
  ELSE "optional"

\* The nodes of a bucket, in input order.
RECURSIVE InBucket(_, _, _)
InBucket(nodes, name, i) ==
  IF i > Len(nodes) THEN <<>>
  ELSE (IF ~isPlusMinus(nodes[i]) /\ Bucket(nodes, i) = name
        THEN <<nodes[i]>> ELSE <<>>) \o InBucket(nodes, name, i + 1)

\* C5: do_plusminus puts every node that is no Plus/Minus marker into the
\* bucket of the most recent marker not yet used by an operand (Plus:
\* required And group, Minus: banned Or group, otherwise optional Or group)
\* and returns optional alone, AndMaybe(required, optional) when required
\* has nodes, and AndNot(that, banned) when banned has nodes; +a b -c gives
\* AndNot(AndMaybe(And(a), Or(b)), Or(c)).
C5_PlusMinusShape ==
  LET required == GroupNode("And", InBucket(group.nodes, "required", 1))
      optional == GroupNode("Or", InBucket(group.nodes, "optional", 1))
      banned == GroupNode("Or", InBucket(group.nodes, "banned", 1))
      inner == IF required.nodes = <<>> THEN optional
               ELSE GroupNode("AndMaybe", <<required, optional>>)
  IN ran = <<"do_plusminus">> =>
       /\ result = IF banned.nodes = <<>> THEN inner
                   ELSE GroupNode("AndNot", <<inner, banned>>)
       /\ group.nodes = <<Plus, WordA, WordB, Minus, WordC>> =>
            result = GroupNode("AndNot",
                       << GroupNode("AndMaybe",
                            << GroupNode("And", <<WordA>>), GroupNode("Or", <<WordB>>) >>),
                          GroupNode("Or", <<WordC>>) >>)

\* +a b -c has been sorted into its three groups.
C5_Witness ==
  /\ ran = <<"do_plusminus">>
  /\ group.nodes = <<Plus, WordA, WordB, Minus, WordC>>
  /\ result.gtype = "AndNot"
  /\ result.nodes[1].gtype = "AndMaybe"

----------------------------------------------------------------------------
(* Specification of MultifieldPlugin.do_multifield on trees.               *)

MfConfs ==
  {[DefaultConf EXCEPT !.fieldnames = fn, !.boosts = bo, !.mfgroup = gt] :
     fn \in {<<>>, <<"title", "body">>},
     bo \in {<<>>, "title" :> 2},
     gt \in {"Or"}}
  \cup {[DefaultConf EXCEPT !.fieldnames = <<"body", "title">>,
                            !.boosts = ("title" :> 2) @@ ("body" :> 3),
                            !.mfgroup = "And"]}

WordTitled == [WordB EXCEPT !.fieldname = "title"]

MfLeaves == {WordA, WordTitled}

MfInner == GroupsOver({"And"}, MfLeaves, MaxMfInner)

\* One tree three groups deep, beside all the trees two groups deep.
MfDeep ==
  GroupNode("And", << WordTitled,
     GroupNode("Or", << GroupNode("And", << WordA, WordTitled, Plus >>), WordB >>) >>)

MfTrees == GroupsOver({"And"}, MfLeaves \cup MfInner, MaxMfLen) \cup {MfDeep}

InitMultifield == Start(MfConfs, MfTrees)

DoMultifield ==
  /\ ran = <<>>
  /\ Call("do_multifield", do_multifield(conf, group))

NextMultifield == DoMultifield

SpecMultifield == InitMultifield /\ [][NextMultifield]_vars

Unfielded(node) == has_fieldname(node) /\ node.fieldname = None

\* The tokens of the composite group that stands for an unfielded leaf: one
\* copy per configured field, in configured order, with the field's name and
\* the field's boost (1 for a field without entry in the mapping).
ExpandedLeaf(c, leaf) ==
  << GroupNode(c.mfgroup, <<>>) >>
  \o [k \in 1..Len(c.fieldnames) |->
        [leaf EXCEPT !.fieldname = c.fieldnames[k],
                     !.boost = IF c.fieldnames[k] \in DOMAIN c.boosts
                               THEN c.boosts[c.fieldnames[k]] ELSE 1]]
  \o << [type |-> "GroupEnd"] >>

RECURSIVE Expanded(_, _, _)
Expanded(c, tokens, i) ==
  IF i > Len(tokens) THEN <<>>
  ELSE (IF Unfielded(tokens[i]) THEN ExpandedLeaf(c, tokens[i]) ELSE <<tokens[i]>>)
       \o Expanded(c, tokens, i + 1)

\* C6: do_multifield replaces every field-capable node without field name,
\* at any depth, by one group of the configured class holding one copy of
\* the node per configured field, in configured order, with that field name
\* and the boost of the per-field mapping (1 when the field has no entry);
\* every other node is unchanged, and no field-capable leaf without field
\* name is left.
C6_MultifieldExpansion ==
  ran = <<"do_multifield">> =>
    /\ Tokens(result) = Expanded(conf, Tokens(group), 1)
    /\ \A i \in 1..Len(Leaves(result)) : ~Unfielded(Leaves(result)[i])

\* An unfielded word two groups down has been expanded over two fields, one
\* with a boost in the mapping and one without.
C6_Witness ==
  /\ ran = <<"do_multifield">>
  /\ conf.fieldnames = <<"title", "body">>
  /\ conf.boosts = "title" :> 2
  /\ group = MfDeep
  /\ result.nodes[2].nodes[1].nodes[1] =
       GroupNode(conf.mfgroup,
         << [WordA EXCEPT !.fieldname = "title", !.boost = 2],
            [WordA EXCEPT !.fieldname = "body"] >>)
  /\ result.nodes[1] = WordTitled

----------------------------------------------------------------------------
(* Specification of GtLtPlugin.do_gtlt on flat sequences.                  *)

Rels == {"<", ">", "<=", ">=", "=<", "=>"}

\* The word 100 at characters 3 to 6 of the query.
Word100 == [WordNode(<<"100">>) EXCEPT !.startchar = 3, !.endchar = 6]

GtLtAlphabet == {GtLtNode(r) : r \in Rels} \cup {FnTitle, Word100, Whitespace}

InitGtLt ==
  Start({DefaultConf},
        {GroupNode("And", s) : s \in SeqsUpTo(GtLtAlphabet, MaxGtLtLen)})

DoGtLt ==
  /\ ran = <<>>
  /\ Call("do_gtlt", do_gtlt(group))

NextGtLt == DoGtLt

SpecGtLt == InitGtLt /\ [][NextGtLt]_vars

\* C9: do_gtlt returns a group and does not raise, whatever the group it is
\* given, also when a comparison marker is the first node and another node
\* follows it (the query >100).
C9_GtLtTotal ==
  ran = <<"do_gtlt">> => (~raised /\ isGroupNode(result))

----------------------------------------------------------------------------
(* Specification of the filter chain on tagged sequences.                  *)

Boost2 == BoostNode(<<"^2">>, 2)

PipeAlphabet ==
  {WordA, Whitespace, OpenBracket, CloseBracket, Boost2, FnTitle,
   GtLtNode(">"), Plus, OpAnd}

PipeConfs == {DefaultConf, [DefaultConf EXCEPT !.schema = {"body"}]}

InitPipeline ==
  Start(PipeConfs,
        {GroupNode("And", s) : s \in SeqsUpTo(PipeAlphabet, MaxPipeLen)})

PipeCleanBoost == RunFilter("clean_boost", clean_boost_priority, clean_boost(Tree))
PipeGroups == RunFilter("do_groups", do_groups_priority, do_groups(Tree))
PipeGtLt == RunFilter("do_gtlt", do_gtlt_priority, do_gtlt(Tree))
PipeFieldnames ==
  RunFilter("do_fieldnames", do_fieldnames_priority, do_fieldnames(conf, Tree))
PipeWhitespace ==
  RunFilter("remove_whitespace", remove_whitespace_priority, remove_whitespace(Tree))
PipePlusMinus == RunFilter("do_plusminus", do_plusminus_priority, do_plusminus(Tree))
PipeOperators ==
  RunFilter("do_operators", do_operators_priority, do_operators(conf.ops, Tree))
PipeBoost == RunFilter("do_boost", do_boost_priority, do_boost(Tree))

NextPipeline ==
  \/ PipeCleanBoost
  \/ PipeGroups
  \/ PipeGtLt
  \/ PipeFieldnames
  \/ PipeWhitespace
  \/ PipePlusMinus
  \/ PipeOperators
  \/ PipeBoost

SpecPipeline == InitPipeline /\ [][NextPipeline]_vars

\* All filters have run: result is the final tree.
PipelineDone == Len(ran) = Cardinality(Filters) /\ ~raised

MarkerTypes ==
  {"Whitespace", "OpenBracket", "CloseBracket", "Boost", "Fieldname", "GtLt",
   "Plus", "Minus"}

\* C8: the final tree of the filter chain holds no marker and no operator
\* node at any depth: no whitespace, bracket, boost, field-name, comparison,
\* Plus or Minus marker survives, also inside a bracketed group.
C8_NoMarkerSurvives ==
  PipelineDone => ~HasType(result, MarkerTypes \cup {"Operator"})

----------------------------------------------------------------------------
(* Specification of FieldsPlugin.do_fieldnames on flat sequences in which  *)
(* field markers stand before markers of other plugins.                    *)

DanglingAlphabet == {FnTitle, WordA, Whitespace, Plus, Minus, Boost2, OpAnd}

InitDangling ==
  Start(FieldConfs,
        {GroupNode("And", s) : s \in SeqsUpTo(DanglingAlphabet, MaxFieldsLen)})

NextDangling == DoFieldnames

SpecDangling == InitDangling /\ [][NextDangling]_vars

\* The node cannot carry a field name and is no field marker itself: a
\* whitespace, Plus, Minus or boost marker or an operator node.
NoFieldCapability(node) ==
  ~has_fieldname(node) /\ ~isGroupNode(node) /\ ~isFieldname(node)

\* The field marker at position i has no node after it, or one that cannot
\* carry a field name.
Dangling(nodes, i) ==
  /\ isFieldname(nodes[i])
  /\ (i = Len(nodes) \/ NoFieldCapability(nodes[i + 1]))

DanglingCount(nodes, m) ==
  Cardinality({i \in 1..Len(nodes) : nodes[i] = m /\ Dangling(nodes, i)})

\* The words of the sequence whose text is the given one.
WordCount(nodes, text) ==
  Cardinality({i \in 1..Len(nodes) : nodes[i].type = "Word" /\ nodes[i].text = text})

\* C11: every field marker that the unknown-field pass keeps and that has no
\* following node, or whose following node has no field-name capability (a
\* whitespace, Plus, Minus or boost marker, an operator node), is in the
\* output as a word with the marker's original text; none is removed
\* without a trace.
C11_DanglingMarkerKept ==
  (ran = <<"do_fieldnames">> /\ MarkerKept(conf, FnTitle)) =>
    WordCount(result.nodes, FnTitle.original) >= DanglingCount(group.nodes, FnTitle)

----------------------------------------------------------------------------
(* Specification of BoostPlugin.clean_boost on flat sequences.             *)

Boost3 == BoostNode(<<"^3">>, 3)

CleanBoostAlphabet == {WordA, Whitespace, Plus, Boost2, Boost3}

InitCleanBoost ==
  Start({DefaultConf},
        {GroupNode("And", s) : s \in SeqsUpTo(CleanBoostAlphabet, MaxBoostLen)})

DoCleanBoost ==
  /\ ran = <<>>
  /\ Call("clean_boost", clean_boost(group))

NextCleanBoost == DoCleanBoost

SpecCleanBoost == InitCleanBoost /\ [][NextCleanBoost]_vars

\* C12: after clean_boost on a flat group every boost marker that stood, in
\* the input, at the start of the group, right after a whitespace marker or
\* right after another boost marker is a word with the marker's original
\* text; every boost marker right after a boost-capable content node is
\* still a boost marker; every other node is unchanged.
C12_CleanBoostDemotes ==
  ran = <<"clean_boost">> =>
    /\ Len(result.nodes) = Len(group.nodes)
    /\ \A i \in 1..Len(group.nodes) :
         LET node == group.nodes[i]
         IN IF ~isBoostNode(node) THEN result.nodes[i] = node
            ELSE IF i = 1 \/ is_ws(group.nodes[i - 1]) \/ isBoostNode(group.nodes[i - 1])
            THEN result.nodes[i] = WordNode(node.original)
            ELSE has_boost(group.nodes[i - 1]) => result.nodes[i] = node

----------------------------------------------------------------------------
(* GtLtPlugin.do_gtlt on flat sequences: the range nodes it makes.         *)

\* The comparison marker at position i stands right after a field marker
\* and right before a node with text.
Qualifies(nodes, i) ==
  /\ isGtLtNode(nodes[i])
  /\ i > 1 /\ isFieldname(nodes[i - 1])
  /\ i < Len(nodes) /\ has_text(nodes[i + 1])

\* start, end, startexcl, endexcl of the range for a relation and a text.
RangeTable(rel, text) ==
  CASE rel = "<" -> <<None, text, FALSE, TRUE>>
    [] rel = ">" -> <<text, None, TRUE, FALSE>>
    [] rel \in {"<=", "=<"} -> <<None, text, FALSE, FALSE>>
    [] rel \in {">=", "=>"} -> <<text, None, FALSE, FALSE>>

\* r is the range node for the relation rel and the text node.
IsRangeOf(r, rel, node) ==
  /\ r.type = "Range"
  /\ <<r.start, r.end, r.startexcl, r.endexcl>> = RangeTable(rel, node.text)
  /\ r.startchar = node.startchar
  /\ r.endchar = node.endchar

\* Every comparison marker of the group that qualifies has its range node
\* in the value returned, right after its field marker.
RangesMade ==
  /\ ~raised
  /\ ~HasType(result, {"GtLt"})
  /\ \A i \in 1..Len(group.nodes) :
       Qualifies(group.nodes, i) =>
         \E j \in 2..Len(result.nodes) :
           /\ j <= i
           /\ IsRangeOf(result.nodes[j], group.nodes[i].rel, group.nodes[i + 1])
           /\ result.nodes[j - 1] = group.nodes[i - 1]
  /\ Count(result.nodes, "Range") >=
       Cardinality({i \in 1..Len(group.nodes) : Qualifies(group.nodes, i)})
  /\ Count(result.nodes, "Word") + Count(result.nodes, "Range")
       = Count(group.nodes, "Word")

\* C13: each comparison marker right after a field marker and right before a
\* node with text T is replaced, with that node, by one range node:
\* < gives (none, T, false, true), > gives (T, none, true, false), <= and =<
\* give (none, T, false, false), >= and => give (T, none, false, false); the
\* range node has the text node's character offsets and the field marker
\* stays right before it.
C13_RangeTable ==
  (ran = <<"do_gtlt">>
   /\ \E i \in 1..Len(group.nodes) : Qualifies(group.nodes, i)) => RangesMade

----------------------------------------------------------------------------
(* FieldAliasPlugin (plugins.py 747-779) and CopyFieldPlugin (782-847).    *)

\* Lines 771-779; c.reverse maps an alias to the field it stands for.
RECURSIVE do_aliases(_, _)
do_aliases(c, g) ==
  [g EXCEPT !.nodes =
     [i \in 1..Len(g.nodes) |->
        LET node == g.nodes[i]
        IN IF isGroupNode(node) THEN do_aliases(c, node)
           ELSE IF has_fieldname(node) /\ node.fieldname # None
                   /\ node.fieldname \in DOMAIN c.reverse
           THEN set_fieldname(node, c.reverse[node.fieldname], TRUE)
           ELSE node]]

\* Lines 828-847; c.copymap is self.map, c.copygroup is self.group (None for
\* inline copies) and c.fieldname the default field of the parser.
RECURSIVE do_copyfield(_, _)
do_copyfield(c, g) ==
  LET RECURSIVE loop(_, _)
      loop(i, newgroup) ==
        IF i > Len(g.nodes) THEN newgroup
        ELSE LET node == g.nodes[i]
                 fname == IF node.fieldname # None THEN node.fieldname
                          ELSE c.fieldname
             IN IF isGroupNode(node)
                THEN loop(i + 1, append(newgroup, do_copyfield(c, node)))
                ELSE IF has_fieldname(node) /\ fname \in DOMAIN c.copymap
                THEN LET newnode == set_fieldname(node, c.copymap[fname], TRUE)
                     IN IF c.copygroup = None
                        THEN loop(i + 1, append(append(newgroup, node), newnode))
                        ELSE loop(i + 1, append(newgroup,
                                    GroupNode(c.copygroup, <<node, newnode>>)))
                ELSE loop(i + 1, append(newgroup, node))
  IN loop(1, empty_copy(g))

do_aliases_priority == 90
do_copyfield_priority == 109
do_multifield_priority == 110

----------------------------------------------------------------------------
(* Specification of the filter chain of a parser with the GroupPlugin, the *)
(* FieldsPlugin and the three plugins that rewrite field names.            *)

\* FieldAliasPlugin({"title": ["body"]}), CopyFieldPlugin({"title":
\* "author"}, group), MultifieldPlugin(["title", "body"]); the parser's
\* default field is content.
ChainConf(copygroup) ==
  [schema |-> {},
   removeunknown |-> TRUE,
   ops |-> DefaultOps,
   fieldnames |-> <<"title", "body">>,
   boosts |-> <<>>,
   mfgroup |-> "Or",
   reverse |-> "body" :> "title",
   copymap |-> "title" :> "author",
   copygroup |-> copygroup,
   fieldname |-> "content"]

ChainConfs == {ChainConf("Or"), ChainConf(None)}

ChainAlphabet == {FnTitle, FnBody, WordA, Whitespace, OpenBracket, CloseBracket}

FieldFilters ==
  { [name |-> "do_groups", priority |-> do_groups_priority],
    [name |-> "do_aliases", priority |-> do_aliases_priority],
    [name |-> "do_fieldnames", priority |-> do_fieldnames_priority],
    [name |-> "do_copyfield", priority |-> do_copyfield_priority],
    [name |-> "do_multifield", priority |-> do_multifield_priority] }

\* The filter of the field chain may run next: it has not run, and all
\* filters of lower priority have.
Ready(name, priority) ==
  /\ ~Ran(name)
  /\ ~raised
  /\ \A f \in FieldFilters : f.priority < priority => Ran(f.name)

RunFieldFilter(name, priority, value) ==
  /\ Ready(name, priority)
  /\ Call(name, value)

InitFieldChain ==
  Start(ChainConfs,
        {GroupNode("And", s) : s \in SeqsUpTo(ChainAlphabet, MaxChainLen)})

ChainGroups == RunFieldFilter("do_groups", do_groups_priority, do_groups(Tree))
ChainAliases ==
  RunFieldFilter("do_aliases", do_aliases_priority, do_aliases(conf, Tree))
ChainFieldnames ==
  RunFieldFilter("do_fieldnames", do_fieldnames_priority, do_fieldnames(conf, Tree))
ChainCopyfield ==
  RunFieldFilter("do_copyfield", do_copyfield_priority, do_copyfield(conf, Tree))
ChainMultifield ==
  RunFieldFilter("do_multifield", do_multifield_priority, do_multifield(conf, Tree))

NextFieldChain ==
  \/ ChainGroups
  \/ ChainAliases
  \/ ChainFieldnames
  \/ ChainCopyfield
  \/ ChainMultifield

SpecFieldChain == InitFieldChain /\ [][NextFieldChain]_vars

\* C14: the multifield, field-alias and copy-field filters are each
\* registered at a priority strictly greater than that of the field-name
\* filter (100), so whenever one of them is about to run on a query with
\* field markers the field-name filter has run and the tree the filter is
\* given holds no field marker.
C14_AfterFieldnames ==
  \A f \in {g \in FieldFilters :
              g.name \in {"do_multifield", "do_aliases", "do_copyfield"}} :
    (Ready(f.name, f.priority) /\ HasType(group, {"Fieldname"})) =>
      /\ f.priority > do_fieldnames_priority
      /\ Ran("do_fieldnames")
      /\ ~HasType(Tree, {"Fieldname"})

----------------------------------------------------------------------------
(* Specification of OperatorsPlugin.do_operators with custom taggers       *)
(* (OperatorsPlugin(ops, clean=True)), some of them right-associative.     *)

AssocOps ==
  { << OpTagger("Not", "Prefix", TRUE),
       OpTagger("And", "Infix", FALSE),
       OpTagger("Or", "Infix", TRUE) >>,
    << OpTagger("And", "Infix", TRUE),
       OpTagger("Or", "Infix", FALSE) >>,
    << OpTagger("AndNot", "Infix", FALSE),
       OpTagger("AndMaybe", "Infix", FALSE) >> }

\* The operator nodes of a sequence are those the taggers of the plugin make.
InitAssoc ==
  /\ conf \in {[DefaultConf EXCEPT !.ops = ops] : ops \in AssocOps}
  /\ group \in
       {GroupNode("And", s) :
          s \in SeqsUpTo({WordA, WordB, WordC}
                           \cup {OpNode(conf.ops[k]) : k \in 1..Len(conf.ops)},
                         MaxAssocLen)}
  /\ result = NoResult
  /\ ran = <<>>

NextAssoc == DoOperators

SpecAssoc == InitAssoc /\ [][NextAssoc]_vars

\* The operator node is of the tagger's kind: same arity class and same
\* group type.
SameKind(t, tagger) ==
  isOperator(t) /\ t.optype = tagger.optype /\ t.grouptype = tagger.grouptype

\* The operator nodes of the sequence that are not of the tagger's kind.
OtherKinds(nodes, tagger) ==
  SelectSeq(nodes, LAMBDA t : isOperator(t) /\ ~SameKind(t, tagger))

\* The children of the group when the scan of the k-th tagger starts, and
\* when it ends.
BeforeScan(ops, k, nodes) == scan_ops(SubSeq(ops, 1, k - 1), 1, nodes)
AfterScan(ops, k, nodes) == scan_ops(SubSeq(ops, 1, k), 1, nodes)

\* C15: the scan made for one tagger resolves only the operator nodes of
\* that tagger's kind, whether the tagger is left- or right-associative:
\* the operator nodes of every other kind are in the sequence after the
\* scan as they were before it, and so x o1 y o2 z becomes o2(o1(x, y), z)
\* when o1 is registered before o2 and o1(x, o2(y, z)) when after.
C15_ScanOwnKind ==
  LET n == group.nodes
  IN ran = <<"do_operators">> =>
     /\ \A k \in 1..Len(conf.ops) :
          OtherKinds(AfterScan(conf.ops, k, n), conf.ops[k])
            = OtherKinds(BeforeScan(conf.ops, k, n), conf.ops[k])
     /\ (/\ Len(n) = 5
         /\ ~isOperator(n[1]) /\ ~isOperator(n[3]) /\ ~isOperator(n[5])
         /\ isInfix(n[2]) /\ isInfix(n[4])
         /\ Rank(conf.ops, n[2]) # Rank(conf.ops, n[4])) =>
          result.nodes =
            IF Rank(conf.ops, n[2]) < Rank(conf.ops, n[4])
            THEN << GroupNode(n[4].grouptype,
                      << GroupNode(n[2].grouptype, <<n[1], n[3]>>), n[5] >>) >>
            ELSE << GroupNode(n[2].grouptype,
                      << n[1], GroupNode(n[4].grouptype, <<n[3], n[5]>>) >>) >>

----------------------------------------------------------------------------
(* The filter chain on sequences of words, whitespace, boost markers and   *)
(* operators: where a boost lands.                                         *)

\* The tagged sequence holds words, whitespace, boost markers and operator
\* nodes only.
BoostChainInput ==
  \A i \in 1..Len(group.nodes) :
    group.nodes[i].type \in {"Word", "Whitespace", "Boost", "Operator"}

\* The words of a sanitized sequence, each with the boost of the boost
\* marker right behind it, if there is one.
RECURSIVE BoostedWords(_, _)
BoostedWords(nodes, i) ==
  IF i > Len(nodes) THEN <<>>
  ELSE (IF nodes[i].type # "Word" THEN <<>>
        ELSE IF i < Len(nodes) /\ isBoostNode(nodes[i + 1])
        THEN << [nodes[i] EXCEPT !.boost = @ * nodes[i + 1].boost] >>
        ELSE << nodes[i] >>) \o BoostedWords(nodes, i + 1)

\* The boosts of the groups of a tree, the top group included.
GroupBoosts(node) ==
  {Tokens(node)[i].boost :
     i \in {j \in 1..Len(Tokens(node)) : isGroupNode(Tokens(node)[j])}}

====
